---- MODULE Spec2Model ----
(***************************************************************************)
(* State-machine model of the contract miner                               *)
(* "Mineable Token/xelis_contract_miner_sha256.py".                        *)
(*                                                                         *)
(* Two threads of control share one MiningState object:                    *)
(*   - the miner thread running mine_loop (program counter pc_m);          *)
(*   - the main thread running listen_contract_events (program counter     *)
(*     pc_l).                                                              *)
(* Every action is one step of one thread between two accesses to shared   *)
(* state.  The node, the wallet, the websocket peer and the clock are the  *)
(* environment: what they return is drawn from small sets.                 *)
(*                                                                         *)
(* Widths are scaled: hashes have HashBits bits instead of 256, struct     *)
(* "<Q" packs NonceBits bits instead of 64, and random.randint draws from  *)
(* 0..2^InitNonceBits instead of 0..2^32.                                  *)
(***************************************************************************)
EXTENDS Integers, FiniteSets, Sequences, TLC

HashBits == 3
NonceBits == 2
InitNonceBits == 1
ReportEvery == 2

\* line 57: MAX_TARGET = (1 << 256) - 1, at the model's hash width
MAX_TARGET == 2^HashBits - 1

\* lines 23 and 27: the configured target of the subscription
CONTRACT_HASH == "a5f7"
CONTRACT_EVENT_ID == 1

\* line 445: the decoded miner address (one fixed value per process)
address_bytes == 1

\* what the three chain-state queries of one sync_chain_state call can return:
\* <<block, diff, prev_hash>>, with difficulties that accept every hash (1),
\* some hashes (2), that divide by zero (0) and that do not fit the unsigned
\* 32 bytes of the header (-1 and MAX_TARGET + 1)
ChainStates ==
    { <<0, 1, 0>>, <<1, 2, 1>>, <<0, 0, 1>>, <<1, -1, 0>>, <<1, MAX_TARGET + 1, 1>> }
\* what int(time.time() * 1000) can return
Clock == {0, 1}

VARIABLES
    lock,                   \* state.lock: "free", "miner" or "listener"
    restart_event,          \* state.restart_event (threading.Event)
    awaiting_confirmation,  \* state.awaiting_confirmation
    block_number,           \* state.block_number
    difficulty,             \* state.difficulty
    prev_hash,              \* state.prev_hash
    ts,                     \* state.ts
    pc_m,                   \* position of the miner thread in mine_loop
    tmpl,                   \* mine_loop locals block_number, difficulty, prev_hash, current_ts
    header_hash,            \* mine_loop local header_hash
    nonce,                  \* mine_loop local nonce
    local_hashes,           \* mine_loop local local_hashes, modulo ReportEvery (all line 316 reads)
    res,                    \* mine_loop local res; Raised when the call raised (res is then not read)
    cycle_submits,          \* submit_solution calls since the last successful refresh
    request,                \* parameters of the last of them (build_transaction request)
    pc_l,                   \* position of the main thread in listen_contract_events
    data,                   \* listen_contract_events local data
    interrupted,            \* KeyboardInterrupt delivered to the main thread
    call                    \* frame of a meets_difficulty call made on its own: arguments, outcome

shared == <<lock, restart_event, awaiting_confirmation>>
params == <<block_number, difficulty, prev_hash, ts>>
minerLocals == <<tmpl, header_hash, nonce, local_hashes, res, cycle_submits, request>>
minerVars == <<pc_m, minerLocals>>
listenerVars == <<pc_l, data, interrupted>>
vars == <<shared, params, minerVars, listenerVars, call>>

----------------------------------------------------------------------------
(* Hash engine *)

\* lines 167-180: the header digest; a deterministic stand-in for blake3 over
\* the packed fields, at the model's hash width
generate_header_hash(bn, miner, diff, prev, t) ==
    (5 * bn + miner + 3 * diff + 7 * prev + t) % 2^HashBits

\* lines 175-179: struct.pack("<Q", ...) and int.to_bytes(32, "little") raise
\* when a field does not fit its unsigned width
HeaderPackable(bn, diff, t) ==
    /\ bn >= 0 /\ bn < 2^NonceBits
    /\ t >= 0 /\ t < 2^NonceBits
    /\ diff >= 0 /\ diff <= MAX_TARGET

\* a digest is a byte string: here HashBits bytes of one bit each, written as
\* a sequence; DigestOf spreads a number over such a string
DigestOf(v) == [i \in 1..HashBits |-> (v \div 2^(HashBits - i)) % 2]

\* lines 162-164 with line 278: double hash of header digest + packed nonce;
\* a deterministic stand-in at the model's hash width
sha3_256d(hh, n) == DigestOf((3 * hh + 5 * n + 1) % 2^HashBits)

\* a slip of line 184: the digest is read with byteorder "little"
int_from_bytes_little(b) ==
    LET v[i \in 0..Len(b)] == IF i = 0 THEN 0 ELSE v[i - 1] + b[i] * 2^(i - 1)
    IN  v[Len(b)]

\* line 184: int.from_bytes(final_hash), byteorder "big" by default: the first
\* byte is the most significant one
int_from_bytes(b) ==
    LET v[i \in 0..Len(b)] == IF i = 0 THEN 0 ELSE 2 * v[i - 1] + b[i]
    IN  v[Len(b)]

\* Python's floor division a // b for b # 0
FloorDiv(a, b) ==
    IF b > 0 THEN (IF a >= 0 THEN a \div b ELSE -(((-a) + b - 1) \div b))
    ELSE (IF a >= 0 THEN -((a + (-b) - 1) \div (-b)) ELSE (-a) \div (-b))

\* lines 183-186: "raise" stands for the ZeroDivisionError of line 185
meets_difficulty(final_hash, diff) ==
    LET hv == int_from_bytes(final_hash)
    IN  IF diff = 0 THEN "raise"
        ELSE IF hv <= FloorDiv(MAX_TARGET, diff) THEN "true" ELSE "false"

----------------------------------------------------------------------------
(* Submission gateway *)

Result(shape, kind, val) == [shape |-> shape, kind |-> kind, val |-> val]

\* what rpc_call can return to submit_solution (lines 110-127): a dict holding
\* the return code under tx.result, result or return_value, with an integer
\* or a non-integer code, or a value holding none of them
SubmitResults ==
    { Result("tx", "int", 0), Result("tx", "int", 1), Result("result", "int", 4),
      Result("return_value", "int", 9), Result("tx", "str", 1),
      Result("other", "int", 1) }

NoResult == Result("unassigned", "int", 0)
Raised == Result("raised", "int", 0)

\* lines 117-118: str(nonce), str(ts): the decimal digits of an integer, most
\* significant first, after a "-" for a negative one
str(n) ==
    LET digits[k \in 0..(IF n < 0 THEN -n ELSE n)] ==
            IF k < 10 THEN <<k>> ELSE Append(digits[k \div 10], k % 10)
    IN  IF n < 0 THEN <<"-">> \o digits[-n] ELSE digits[n]

\* lines 116-119: the "parameters" of the invoke_contract request
Parameters(n, t) == [nonce |-> str(n), ts |-> str(t)]

NoRequest == [nonce |-> <<>>, ts |-> <<>>]

\* lines 132-138: error_codes
error_codes(code) ==
    CASE code = 0 -> "Success - Block mined!"
      [] code = 1 -> "Max supply reached - Mining complete"
      [] code = 2 -> "Timestamp out of bounds"
      [] code = 3 -> "Timestamp is stale"
      [] code = 4 -> "PoW verification failed"
      [] OTHER -> "Unknown return code"

\* lines 130-156: parse_contract_error; "None" is Python's None
parse_contract_error(result) ==
    IF result.shape \in {"tx", "result", "return_value"}
    THEN IF result.kind = "int" THEN error_codes(result.val) ELSE "None"
    ELSE "None"

\* a slip of line 296: every message but the success one ends the thread
MaxSupplyReached_AnyError(error_msg) ==
    error_msg # "None" /\ error_msg # "Success - Block mined!"

\* line 296: error_msg and "Max supply reached" in error_msg
MaxSupplyReached(error_msg) ==
    error_msg # "None" /\ error_msg = "Max supply reached - Mining complete"

----------------------------------------------------------------------------
(* Event messages *)

Msg(result, event, has_ce, contract, id) ==
    [result |-> result, event |-> event, has_ce |-> has_ce,
     contract |-> contract, id |-> id]

\* what json.loads(await ws.recv()) can yield: result is "bool", "dict" or
\* "absent"; event (inside a dict result) is "dict", "other" or "absent";
\* has_ce says whether the event dict holds "contract_event"; contract and id
\* are the fields of that contract_event
Messages ==
    { Msg("bool", "absent", FALSE, "", 0),
      Msg("dict", "other", FALSE, "", 0),
      Msg("dict", "dict", FALSE, CONTRACT_HASH, CONTRACT_EVENT_ID),
      Msg("dict", "dict", TRUE, "ffff", CONTRACT_EVENT_ID),
      Msg("dict", "dict", TRUE, CONTRACT_HASH, 2),
      Msg("dict", "dict", TRUE, CONTRACT_HASH, CONTRACT_EVENT_ID) }

NoMessage == Msg("unassigned", "absent", FALSE, "", 0)

\* a slip of lines 365-366: the event id is not compared
IsTargetEvent_AnyId(m) ==
    m.result = "dict" /\ m.event = "dict" /\ m.has_ce /\ m.contract = CONTRACT_HASH

\* a slip of lines 365-366: the contract address is not compared
IsTargetEvent_AnyContract(m) ==
    m.result = "dict" /\ m.event = "dict" /\ m.has_ce /\ m.id = CONTRACT_EVENT_ID

\* lines 353-366: the nested conditions a message passes to reach line 367
IsTargetEvent(m) ==
    IF m.result = "bool" THEN FALSE
    ELSE IF m.result = "dict"
         THEN IF m.event = "dict"
              THEN IF m.has_ce
                   THEN m.contract = CONTRACT_HASH /\ m.id = CONTRACT_EVENT_ID
                   ELSE FALSE
              ELSE FALSE
         ELSE FALSE

----------------------------------------------------------------------------
(* Initial state: MiningState.__init__ (lines 192-203), both threads at the
   top of their loops *)

\* (the locals of both functions are not assigned yet: they hold placeholders
\* that no action reads before it has written them)
Constructed ==
    /\ lock = "free"
    /\ restart_event = TRUE
    /\ awaiting_confirmation = FALSE
    /\ block_number = 0
    /\ difficulty = 1
    /\ prev_hash = 0
    /\ ts \in Clock
    /\ pc_m = "wait"
    /\ tmpl = [block_number |-> 0, difficulty |-> 1, prev_hash |-> 0, current_ts |-> 0]
    /\ header_hash = 0
    /\ nonce = 0
    /\ local_hashes = 0
    /\ res = NoResult
    /\ cycle_submits = 0
    /\ request = NoRequest
    /\ pc_l = "connect"
    /\ data = NoMessage
    /\ interrupted = FALSE

\* no meets_difficulty call is made outside mine_loop
NoCall == [final_hash |-> <<>>, difficulty |-> 1, outcome |-> "none"]

Init == Constructed /\ call = NoCall

\* the process lives until the main thread leaves asyncio.run (line 456); the
\* miner is a daemon thread (line 451)
ProcessAlive == pc_l # "Exited"

----------------------------------------------------------------------------
(* Miner thread: mine_loop (lines 227-323) *)

\* line 235: state.restart_event.wait() returns once the event is set
M_Wait ==
    /\ ProcessAlive
    /\ pc_m = "wait"
    /\ restart_event
    /\ pc_m' = "acquire_sync"
    /\ UNCHANGED <<shared, params, minerLocals, listenerVars, call>>

\* line 239: with state.lock (acquire)
M_AcquireSync ==
    /\ ProcessAlive
    /\ pc_m = "acquire_sync"
    /\ lock = "free"
    /\ lock' = "miner"
    /\ pc_m' = "check_awaiting"
    /\ UNCHANGED <<restart_event, awaiting_confirmation, params, minerLocals, listenerVars, call>>

\* a slip of lines 240-241: the flag is not looked at
M_CheckAwaiting_Unchecked ==
    /\ ProcessAlive
    /\ pc_m = "check_awaiting"
    /\ pc_m' = "sync"
    /\ UNCHANGED <<shared, params, minerLocals, listenerVars, call>>

\* a slip of lines 240-241: the event is cleared before the continue
M_CheckAwaiting_Clears ==
    /\ ProcessAlive
    /\ pc_m = "check_awaiting"
    /\ IF awaiting_confirmation
       THEN /\ lock' = "free"
            /\ restart_event' = FALSE
            /\ pc_m' = "wait"
       ELSE /\ lock' = lock
            /\ restart_event' = restart_event
            /\ pc_m' = "sync"
    /\ UNCHANGED <<awaiting_confirmation, params, minerLocals, listenerVars, call>>

\* lines 240-241: if state.awaiting_confirmation: continue (the with block
\* releases the lock on the way out); otherwise go on to the refresh
M_CheckAwaiting ==
    /\ ProcessAlive
    /\ pc_m = "check_awaiting"
    /\ IF awaiting_confirmation
       THEN /\ lock' = "free"
            /\ pc_m' = "wait"
       ELSE /\ lock' = lock
            /\ pc_m' = "sync"
    /\ UNCHANGED <<restart_event, awaiting_confirmation, params, minerLocals, listenerVars, call>>

\* lines 242-251, sync_chain_state returning (lines 212-218): the three values
\* are stored, the timestamp is taken, the event is cleared, the locals are
\* captured and the lock is released
\* (one action: the lock is held throughout, only the miner touches these
\* fields, and a restart_event.set() of the listener that lands between the
\* lines is overwritten by line 246 as one that lands before them)
M_SyncOk ==
    /\ ProcessAlive
    /\ pc_m = "sync"
    /\ \E chain \in ChainStates, now \in Clock :
        /\ block_number' = chain[1]
        /\ difficulty' = chain[2]
        /\ prev_hash' = chain[3]
        /\ ts' = now
        /\ tmpl' = [block_number |-> chain[1], difficulty |-> chain[2],
                    prev_hash |-> chain[3], current_ts |-> now]
    /\ restart_event' = FALSE
    /\ lock' = "free"
    /\ cycle_submits' = 0
    /\ request' = NoRequest
    /\ pc_m' = "header"
    /\ UNCHANGED <<awaiting_confirmation, header_hash, nonce, local_hashes, res,
                   listenerVars, call>>

\* a slip of lines 214-218 and 243: each value is stored as soon as its query
\* has returned, so a later query that raises leaves the earlier ones stored
M_SyncFail_Partial ==
    /\ ProcessAlive
    /\ pc_m = "sync"
    /\ \E chain \in ChainStates, failed \in 1..3 :
        /\ block_number' = IF failed > 1 THEN chain[1] ELSE block_number
        /\ difficulty' = IF failed > 2 THEN chain[2] ELSE difficulty
    /\ lock' = "free"
    /\ pc_m' = "error_sleep"
    /\ UNCHANGED <<restart_event, awaiting_confirmation, prev_hash, ts, minerLocals,
                   listenerVars, call>>

\* a slip of lines 239-243: the lock is taken and released by hand, and the
\* path of the exception does not release it
M_SyncFail_KeepsLock ==
    /\ ProcessAlive
    /\ pc_m = "sync"
    /\ pc_m' = "error_sleep"
    /\ UNCHANGED <<shared, params, minerLocals, listenerVars, call>>

\* lines 243 and 214-221, 270-271: the first, second or third query (or its
\* parse) raises, whatever the earlier ones returned; sync_chain_state holds
\* what it has read in its own locals and re-raises, no field of state is
\* assigned, and the exception leaves the with block, which releases the lock
M_SyncFail ==
    /\ ProcessAlive
    /\ pc_m = "sync"
    /\ \E chain \in ChainStates, failed \in 1..3 : TRUE
    /\ lock' = "free"
    /\ pc_m' = "error_sleep"
    /\ UNCHANGED <<restart_event, awaiting_confirmation, params, minerLocals, listenerVars, call>>

\* lines 253-268: the header digest and the first nonce; packing a field that
\* does not fit raises into the except branch of line 270
M_Header ==
    /\ ProcessAlive
    /\ pc_m = "header"
    /\ IF HeaderPackable(tmpl.block_number, tmpl.difficulty, tmpl.current_ts)
       THEN /\ header_hash' = generate_header_hash(tmpl.block_number, address_bytes,
                                  tmpl.difficulty, tmpl.prev_hash, tmpl.current_ts)
            /\ nonce' \in 0..(2^InitNonceBits)
            /\ local_hashes' = 0
            /\ pc_m' = "hot"
       ELSE /\ pc_m' = "error_sleep"
            /\ UNCHANGED <<header_hash, nonce, local_hashes>>
    /\ UNCHANGED <<shared, params, tmpl, res, cycle_submits, request, listenerVars, call>>

\* lines 270-273: time.sleep(5); continue
M_ErrorSleep ==
    /\ ProcessAlive
    /\ pc_m = "error_sleep"
    /\ pc_m' = "wait"
    /\ UNCHANGED <<shared, params, minerLocals, listenerVars, call>>

\* line 276: the event is set, the while loop ends and the outer loop starts over
M_LoopExit ==
    /\ ProcessAlive
    /\ pc_m = "hot"
    /\ restart_event
    /\ pc_m' = "wait"
    /\ UNCHANGED <<shared, params, minerLocals, listenerVars, call>>

\* lines 316-323: the report branch is taken when the hash count is a multiple
\* of the reporting period and the clock is past the interval
ReportDue(hashes, late) == hashes % ReportEvery = 0 /\ late

\* lines 276-283 and 313-323: one hash attempt.  struct.pack("<Q", nonce)
\* raises when the nonce does not fit, meets_difficulty raises on a zero
\* difficulty; neither is caught, so the thread dies.  A hit goes on to the
\* submission, a miss increments the nonce and may signal the event.
M_Hash ==
    /\ ProcessAlive
    /\ pc_m = "hot"
    /\ ~restart_event
    /\ IF nonce >= 2^NonceBits
       THEN /\ pc_m' = "Crashed"
            /\ UNCHANGED <<nonce, local_hashes, restart_event>>
       ELSE LET verdict == meets_difficulty(sha3_256d(header_hash, nonce), tmpl.difficulty)
            IN  /\ local_hashes' = (local_hashes + 1) % ReportEvery
                /\ CASE verdict = "raise" ->
                          /\ pc_m' = "Crashed"
                          /\ UNCHANGED <<nonce, restart_event>>
                     [] verdict = "true" ->
                          /\ pc_m' = "submit"
                          /\ UNCHANGED <<nonce, restart_event>>
                     [] OTHER ->
                          /\ pc_m' = "hot"
                          /\ nonce' = nonce + 1
                          /\ \E late \in BOOLEAN :
                                restart_event' =
                                    (restart_event \/ ReportDue(local_hashes', late))
    /\ UNCHANGED <<lock, awaiting_confirmation, params, tmpl, header_hash, res,
                   cycle_submits, request, listenerVars, call>>

\* a slip of line 287: the timestamp submitted is read from the clock anew
M_SubmitReturns_FreshTs ==
    /\ ProcessAlive
    /\ pc_m = "submit"
    /\ \E r \in SubmitResults :
        /\ res' = r
        /\ pc_m' = IF MaxSupplyReached(parse_contract_error(r))
                   THEN "Terminated" ELSE "acquire_await"
    /\ cycle_submits' = cycle_submits + 1
    /\ \E now \in Clock : request' = Parameters(nonce, now)
    /\ UNCHANGED <<shared, params, tmpl, header_hash, nonce, local_hashes, listenerVars, call>>

\* lines 286-302, submit_solution returning: the result is parsed; the
\* max-supply message ends the thread through sys.exit(0) (SystemExit is no
\* Exception, so line 300 does not catch it, and in a thread other than the
\* main one it ends that thread only)
M_SubmitReturns ==
    /\ ProcessAlive
    /\ pc_m = "submit"
    /\ \E r \in SubmitResults :
        /\ res' = r
        /\ pc_m' = IF MaxSupplyReached(parse_contract_error(r))
                   THEN "Terminated" ELSE "acquire_await"
    /\ cycle_submits' = cycle_submits + 1
    /\ request' = Parameters(nonce, tmpl.current_ts)
    /\ UNCHANGED <<shared, params, tmpl, header_hash, nonce, local_hashes, listenerVars, call>>

\* a slip of lines 300-302: the failed submission is tried again
M_SubmitRaises_Retry ==
    /\ ProcessAlive
    /\ pc_m = "submit"
    /\ res' = Raised
    /\ cycle_submits' = cycle_submits + 1
    /\ request' = Parameters(nonce, tmpl.current_ts)
    /\ pc_m' = "submit"
    /\ UNCHANGED <<shared, params, tmpl, header_hash, nonce, local_hashes, listenerVars, call>>

\* lines 287 and 300-302: submit_solution raises; the exception is printed
\* and the loop goes on to line 304
M_SubmitRaises ==
    /\ ProcessAlive
    /\ pc_m = "submit"
    /\ res' = Raised
    /\ cycle_submits' = cycle_submits + 1
    /\ request' = Parameters(nonce, tmpl.current_ts)
    /\ pc_m' = "acquire_await"
    /\ UNCHANGED <<shared, params, tmpl, header_hash, nonce, local_hashes, listenerVars, call>>

\* a slip of line 305: the flag is set without taking the lock
M_AcquireAwait_Unlocked ==
    /\ ProcessAlive
    /\ pc_m = "acquire_await"
    /\ pc_m' = "set_awaiting"
    /\ UNCHANGED <<shared, params, minerLocals, listenerVars, call>>

\* line 305: with state.lock (acquire)
M_AcquireAwait ==
    /\ ProcessAlive
    /\ pc_m = "acquire_await"
    /\ lock = "free"
    /\ lock' = "miner"
    /\ pc_m' = "set_awaiting"
    /\ UNCHANGED <<restart_event, awaiting_confirmation, params, minerLocals, listenerVars, call>>

\* line 306: state.awaiting_confirmation = True, then the lock is released
M_SetAwaiting ==
    /\ ProcessAlive
    /\ pc_m = "set_awaiting"
    /\ awaiting_confirmation' = TRUE
    /\ lock' = "free"
    /\ pc_m' = "clear_restart"
    /\ UNCHANGED <<restart_event, params, minerLocals, listenerVars, call>>

\* line 309: state.restart_event.clear()
M_ClearRestart ==
    /\ ProcessAlive
    /\ pc_m = "clear_restart"
    /\ restart_event' = FALSE
    /\ pc_m' = "wait_confirm"
    /\ UNCHANGED <<lock, awaiting_confirmation, params, minerLocals, listenerVars, call>>

\* lines 310-311: state.restart_event.wait(); break
M_WaitConfirm ==
    /\ ProcessAlive
    /\ pc_m = "wait_confirm"
    /\ restart_event
    /\ pc_m' = "wait"
    /\ UNCHANGED <<shared, params, minerLocals, listenerVars, call>>

Miner ==
    \/ M_Wait \/ M_AcquireSync \/ M_CheckAwaiting \/ M_SyncOk \/ M_SyncFail
    \/ M_Header \/ M_ErrorSleep \/ M_LoopExit \/ M_Hash
    \/ M_SubmitReturns \/ M_SubmitRaises
    \/ M_AcquireAwait \/ M_SetAwaiting \/ M_ClearRestart \/ M_WaitConfirm

----------------------------------------------------------------------------
(* Main thread: listen_contract_events (lines 329-375) under asyncio.run
   (lines 455-459) *)

\* line 332: websockets.connect succeeds
L_ConnectOk ==
    /\ pc_l = "connect"
    /\ pc_l' = "subscribe"
    /\ UNCHANGED <<shared, params, minerVars, data, interrupted, call>>

\* lines 332 and 372-374: websockets.connect raises
L_ConnectFails ==
    /\ pc_l = "connect"
    /\ pc_l' = "backoff"
    /\ UNCHANGED <<shared, params, minerVars, data, interrupted, call>>

\* lines 333-347: the subscribe request is sent
L_SubscribeOk ==
    /\ pc_l = "subscribe"
    /\ pc_l' = "recv"
    /\ UNCHANGED <<shared, params, minerVars, data, interrupted, call>>

\* lines 346 and 372-374: ws.send raises
L_SubscribeFails ==
    /\ pc_l = "subscribe"
    /\ pc_l' = "backoff"
    /\ UNCHANGED <<shared, params, minerVars, data, interrupted, call>>

\* lines 350-367: a message is received and decoded; a target event goes on
\* to line 368, every other message back to ws.recv
L_Recv ==
    /\ pc_l = "recv"
    /\ \E m \in Messages :
        /\ data' = m
        /\ pc_l' = IF IsTargetEvent(m) THEN "acquire" ELSE "recv"
    /\ UNCHANGED <<shared, params, minerVars, interrupted, call>>

\* lines 350-351 and 372-374: ws.recv raises (closure, transport error) or the
\* message is no JSON document; data is left as it was
L_RecvFails ==
    /\ pc_l = "recv"
    /\ pc_l' = "backoff"
    /\ UNCHANGED <<shared, params, minerVars, data, interrupted, call>>

\* line 368: with state.lock (acquire)
L_Acquire ==
    /\ pc_l = "acquire"
    /\ lock = "free"
    /\ lock' = "listener"
    /\ pc_l' = "clear_awaiting"
    /\ UNCHANGED <<restart_event, awaiting_confirmation, params, minerVars, data, interrupted, call>>

\* line 369: state.awaiting_confirmation = False, then the lock is released
L_ClearAwaiting ==
    /\ pc_l = "clear_awaiting"
    /\ awaiting_confirmation' = FALSE
    /\ lock' = "free"
    /\ pc_l' = "set_restart"
    /\ UNCHANGED <<restart_event, params, minerVars, data, interrupted, call>>

\* line 370: state.restart_event.set(), then back to ws.recv
L_SetRestart ==
    /\ pc_l = "set_restart"
    /\ restart_event' = TRUE
    /\ pc_l' = "recv"
    /\ UNCHANGED <<lock, awaiting_confirmation, params, minerVars, data, interrupted, call>>

\* a slip of lines 372-375: the listener gives up instead of reconnecting
L_Backoff_GivesUp ==
    /\ pc_l = "backoff"
    /\ pc_l' = "Exited"
    /\ UNCHANGED <<shared, params, minerVars, data, interrupted, call>>

\* line 375: await asyncio.sleep(5), then the outer loop reconnects
L_Backoff ==
    /\ pc_l = "backoff"
    /\ pc_l' = "connect"
    /\ UNCHANGED <<shared, params, minerVars, data, interrupted, call>>

\* lines 455-459: KeyboardInterrupt ends asyncio.run wherever the listener
\* is (a with block it is in releases the lock); the main thread returns and
\* the process, daemon miner thread included, is gone
L_Interrupt ==
    /\ pc_l # "Exited"
    /\ interrupted' = TRUE
    /\ pc_l' = "Exited"
    /\ lock' = IF lock = "listener" THEN "free" ELSE lock
    /\ UNCHANGED <<restart_event, awaiting_confirmation, params, minerVars, data, call>>

\* the listener's own steps: everything but waiting for the peer
ListenerInternal ==
    \/ L_Acquire \/ L_ClearAwaiting \/ L_SetRestart \/ L_Backoff

Listener ==
    \/ L_ConnectOk \/ L_ConnectFails \/ L_SubscribeOk \/ L_SubscribeFails
    \/ L_Recv \/ L_RecvFails \/ ListenerInternal \/ L_Interrupt

----------------------------------------------------------------------------
Next == Miner \/ Listener

Spec == Init /\ [][Next]_vars

\* Scheduling: a thread that can take a step of its own eventually takes it.
\* Nothing is assumed of the environment: no message, interrupt, successful
\* connection or successful query is ever owed.
FairSpec == Spec /\ WF_vars(Miner) /\ WF_vars(ListenerInternal)

\* Lock hand-over: the listener blocked in the acquire of line 368 gets the
\* lock if the lock keeps becoming free, however often the miner retakes it
\* in between (the miner holds it for a refresh, and is outside it for the
\* whole hash loop and every back-off).
LockFairSpec == FairSpec /\ SF_vars(L_Acquire)

----------------------------------------------------------------------------
(* The hash predicate on its own: meets_difficulty (lines 183-186) called
   once on arguments of every kind, apart from the threads *)

\* every byte string of digest length
Digests == [1..HashBits -> {0, 1}]

\* the integers a caller can pass as difficulty: zero, the positive ones up
\* to one past MAX_TARGET, and as many negative ones
Difficulties == (-(MAX_TARGET + 1))..(MAX_TARGET + 1)

HashInit ==
    /\ Constructed
    /\ call \in [final_hash : Digests, difficulty : Difficulties, outcome : {"pending"}]

\* lines 183-186: the call returns True or False, or raises
E_MeetsDifficulty ==
    /\ call.outcome = "pending"
    /\ call' = [call EXCEPT !.outcome = meets_difficulty(call.final_hash, call.difficulty)]
    /\ UNCHANGED <<shared, params, minerVars, listenerVars>>

HashNext == E_MeetsDifficulty

HashSpec == HashInit /\ [][HashNext]_vars

----------------------------------------------------------------------------
(* Vocabulary of the properties *)

\* the miner has passed the check of line 240 and is refreshing or searching
InSearchCycle == pc_m \in {"sync", "header", "hot"}

\* the miner is between the end of the submit_solution call and the return
\* of the wait of line 310
AfterSubmit == pc_m \in {"acquire_await", "set_awaiting", "clear_restart", "wait_confirm"}

\* the listener is at lines 368-370, handling an event it let through
Handling == pc_l \in {"acquire", "clear_awaiting", "set_restart"}

\* the miner is inside one of its with state.lock blocks (lines 239-251,
\* 305-306), the listener inside its own (lines 368-369)
MinerInLockedBlock == pc_m \in {"check_awaiting", "sync", "set_awaiting"}
ListenerInLockedBlock == pc_l = "clear_awaiting"

\* a step of the miner thread, a step of the main thread
MinerStep == minerVars' # minerVars
ListenerStep == listenerVars' # listenerVars

\* a contract-event envelope of the configured contract and event id
TargetEnvelope(m) ==
    /\ m.result = "dict" /\ m.event = "dict" /\ m.has_ce
    /\ m.contract = CONTRACT_HASH /\ m.id = CONTRACT_EVENT_ID

\* the result carries the integer return code 1 (supply exhausted)
SupplyExhausted(r) ==
    r.shape \in {"tx", "result", "return_value"} /\ r.kind = "int" /\ r.val = 1

\* the number a byte string denotes when its first byte is the most
\* significant one
BigEndianValue(b) ==
    LET tail[i \in 1..(Len(b) + 1)] ==
            IF i > Len(b) THEN 0 ELSE b[i] * 2^(Len(b) - i) + tail[i + 1]
    IN  tail[1]

\* the number a string of decimal digits denotes (how the contract reads a
\* u64 parameter)
DecimalValue(d) ==
    LET v[i \in 0..Len(d)] == IF i = 0 THEN 0 ELSE 10 * v[i - 1] + d[i]
    IN  v[Len(d)]

\* the nonce at hand solves the current template
SolutionFound ==
    /\ tmpl.difficulty >= 1
    /\ BigEndianValue(sha3_256d(header_hash, nonce)) <= MAX_TARGET \div tmpl.difficulty

----------------------------------------------------------------------------
(* C1: under every interleaving of the two threads, the miner is never past
   the check of line 240 (refreshing, building the header or in the hash
   loop) while awaiting_confirmation is true, even when restart_event is
   set. *)
C1_NoSearchWhileAwaiting == InSearchCycle => ~awaiting_confirmation

\* the miner was woken with the flag still true and is about to decline
C1_Witness == pc_m = "check_awaiting" /\ awaiting_confirmation /\ restart_event

(* C2: every time the miner writes awaiting_confirmation = True (line 306)
   the flag was false immediately before the write, so it never goes
   false -> true twice without a true -> false in between. *)
C2_SetOnlyWhenClear ==
    [][(MinerStep /\ pc_m = "set_awaiting")
         => (~awaiting_confirmation /\ awaiting_confirmation')]_vars

\* the listener has just cleared the flag and the miner is about to set it
C2_Witness == pc_m = "set_awaiting" /\ pc_l = "set_restart" /\ TargetEnvelope(data)

(* C3: awaiting_confirmation goes false -> true only in the miner's step of
   line 306, which follows the one submit_solution call made for a found
   solution, and true -> false only in the listener's step of line 369,
   taken for an event of the configured contract and id.  No other step (a
   forced refresh, a sync, a reconnect) changes the flag. *)
C3_SingleWriters ==
    [][(awaiting_confirmation' # awaiting_confirmation) =>
         IF awaiting_confirmation'
         THEN /\ MinerStep /\ ~ListenerStep
              /\ pc_m = "set_awaiting" /\ lock = "miner"
              /\ cycle_submits = 1 /\ SolutionFound
         ELSE /\ ListenerStep /\ ~MinerStep
              /\ pc_l = "clear_awaiting" /\ lock = "listener"
              /\ TargetEnvelope(data)]_vars

\* the flag is true, set by the miner, and the listener is about to clear it
C3_Witness ==
    /\ awaiting_confirmation /\ pc_m = "wait_confirm"
    /\ pc_l = "clear_awaiting"

(* C4: once the miner has made its submit_solution call with a non-terminal
   outcome, an event of the configured target that the listener handles from
   then on (before, between or after the miner's steps of lines 306, 309 and
   310) is enough: under fair scheduling the miner leaves the wait and passes
   the check of line 240 into a new refresh, with no further event.  (An
   interrupt of the process ends the obligation.) *)
C4_ResumeAfterConfirmation ==
    (AfterSubmit /\ pc_l = "acquire") ~> (pc_m = "sync" \/ interrupted)

(* C5, as claimed: restart_event starts set; it goes set -> clear only in
   the miner's step that stores a successful refresh (lines 243-251), and
   clear -> set only in the report branch of the hash loop (line 323) and in
   the listener's step of line 370 for a target event. *)
C5_ClearedOnlyAtCapture ==
    /\ restart_event = TRUE
    /\ [][/\ (restart_event /\ ~restart_event') =>
                (MinerStep /\ pc_m = "sync" /\ pc_m' = "header")
          /\ (~restart_event /\ restart_event') =>
                \/ (MinerStep /\ pc_m = "hot" /\ pc_m' = "hot")
                \/ (ListenerStep /\ pc_l = "set_restart" /\ TargetEnvelope(data))]_vars

(* C5, amended: restart_event starts set; it goes set -> clear only in two
   steps of the miner, the one that stores a successful refresh (line 246)
   and the one right after it has set awaiting_confirmation for a submitted
   solution (line 309); the listener never clears it.  It goes clear -> set
   only in the report branch of the hash loop and in the listener's step of
   line 370 for a target event. *)
C5_ClearedOnlyByMiner ==
    /\ restart_event = TRUE
    /\ [][/\ (restart_event /\ ~restart_event') =>
                /\ MinerStep /\ ~ListenerStep
                /\ \/ (pc_m = "sync" /\ pc_m' = "header")
                   \/ (pc_m = "clear_restart" /\ pc_m' = "wait_confirm"
                         /\ cycle_submits = 1)
          /\ (~restart_event /\ restart_event') =>
                \/ (MinerStep /\ pc_m = "hot" /\ pc_m' = "hot")
                \/ (ListenerStep /\ pc_l = "set_restart" /\ TargetEnvelope(data))]_vars

\* the clear of line 309 is about to wipe a signal of the listener
C5_Witness == pc_m = "clear_restart" /\ restart_event /\ pc_l = "recv"

(* C6: a submit_solution result with return code 1 ends the miner thread,
   which then never moves or submits again whatever the listener does; and
   the thread reaches Terminated only by such a result.  A failed refresh, a
   header that does not pack, a submission that raises or returns another
   code never end the thread: it ends otherwise only inside the hash loop, on
   the uncaught error of a hash attempt (a zero difficulty, a nonce that no
   longer packs). *)
C6_TerminatedOnlyOnSupplyExhausted ==
    [][/\ (pc_m = "Terminated") =>
             (pc_m' = "Terminated" /\ cycle_submits' = cycle_submits /\ res' = res)
       /\ (MinerStep /\ pc_m = "submit" /\ SupplyExhausted(res')) => pc_m' = "Terminated"
       /\ (pc_m # "Terminated" /\ pc_m' = "Terminated") =>
             (pc_m = "submit" /\ SupplyExhausted(res'))
       /\ (pc_m # "Crashed" /\ pc_m' = "Crashed") =>
             (pc_m = "hot" /\ (tmpl.difficulty < 1 \/ nonce >= 2^NonceBits))]_vars

\* the miner has ended on return code 1 and the listener is about to signal it
C6_Witness ==
    /\ pc_m = "Terminated" /\ SupplyExhausted(res)
    /\ pc_l = "set_restart" /\ ~restart_event

(* C7: once the miner thread has ended on the supply-exhausted result, the
   main thread stops too: the listener eventually leaves its receive and
   reconnect loop and the process is gone. *)
C7_ProcessStops == (pc_m = "Terminated") ~> (pc_l = "Exited")

(* C8: a submission that raises or returns a non-terminal result is made
   once: the call is not repeated, and the miner goes on to take the lock,
   set awaiting_confirmation, clear the event and wait, the same way for
   every outcome; after the wait the outer loop starts over, so the nonce is
   not submitted again. *)
C8_SubmitOnceThenAwait ==
    [][/\ (MinerStep /\ pc_m = "submit") =>
             /\ cycle_submits' = cycle_submits + 1
             /\ pc_m' = IF SupplyExhausted(res') THEN "Terminated" ELSE "acquire_await"
       /\ AfterSubmit' => cycle_submits' = 1
       /\ (MinerStep /\ pc_m = "acquire_await") => pc_m' = "set_awaiting"
       /\ (MinerStep /\ pc_m = "set_awaiting") =>
             (awaiting_confirmation' /\ pc_m' = "clear_restart")
       /\ (MinerStep /\ pc_m = "clear_restart") => pc_m' = "wait_confirm"
       /\ (MinerStep /\ pc_m = "wait_confirm") => pc_m' = "wait"]_vars

\* the submission raised and the miner waits for the confirmation all the same
C8_Witness ==
    pc_m = "wait_confirm" /\ res = Raised /\ awaiting_confirmation /\ cycle_submits = 1

(* C9: a failure while connecting, subscribing or receiving takes the
   listener to the backoff of line 375 and from there back to the connect of
   line 332, whose success is followed by the subscribe request; the
   listener ends on an interrupt only, never on such a failure, and under
   fair scheduling every backoff is followed by a new connect attempt. *)
C9_ListenerReconnects ==
    /\ [][/\ (ListenerStep /\ pc_l = "connect") =>
                (pc_l' \in {"subscribe", "backoff"} \/ interrupted')
          /\ (ListenerStep /\ pc_l = "subscribe") =>
                (pc_l' \in {"recv", "backoff"} \/ interrupted')
          /\ (ListenerStep /\ pc_l = "recv") =>
                (pc_l' \in {"recv", "acquire", "backoff"} \/ interrupted')
          /\ (ListenerStep /\ pc_l = "backoff") => (pc_l' = "connect" \/ interrupted')
          /\ (pc_l' = "Exited") => interrupted']_vars
    /\ (pc_l = "backoff") ~> (pc_l = "connect" \/ interrupted)

\* a subscription that had delivered messages failed and the listener is
\* about to send the subscribe request again
C9_Witness == pc_l = "subscribe" /\ data # NoMessage

(* C10: a received message that is an acknowledgment, no event envelope, or
   an event of another contract or id changes neither flag and sends the
   listener back to receive; a message is let through exactly when it is an
   event of the configured contract and id, whatever the miner is doing, and
   then the listener clears awaiting_confirmation and sets restart_event. *)
C10_EventFiltering ==
    [][/\ (ListenerStep /\ pc_l = "recv" /\ pc_l' \in {"recv", "acquire"}) =>
             /\ (pc_l' = "acquire") <=> TargetEnvelope(data')
             /\ awaiting_confirmation' = awaiting_confirmation
             /\ restart_event' = restart_event
       /\ (ListenerStep /\ (awaiting_confirmation' # awaiting_confirmation
                              \/ restart_event' # restart_event)) =>
             (Handling /\ TargetEnvelope(data))
       /\ Handling' => TargetEnvelope(data')
       /\ (ListenerStep /\ ~interrupted' /\ pc_l = "acquire") => pc_l' = "clear_awaiting"
       /\ (ListenerStep /\ ~interrupted' /\ pc_l = "clear_awaiting") =>
             (~awaiting_confirmation' /\ pc_l' = "set_restart")
       /\ (ListenerStep /\ ~interrupted' /\ pc_l = "set_restart") =>
             (restart_event' /\ pc_l' = "recv")]_vars

\* a target event arrived while the miner is in the hash loop and the
\* listener is about to signal it
C10_Witness ==
    /\ pc_m = "hot" /\ ~restart_event
    /\ pc_l = "set_restart" /\ TargetEnvelope(data)

(* C11: a failure of the refresh (a chain-state query or its parse raises, or
   the header digest cannot be built because a field does not pack) never
   ends the miner thread: it goes to the back-off of lines 270-273 and from
   there to the top of the outer loop; and restart_event is still set while
   it backs off, so the wait of line 235 returns and the refresh is tried
   again without a new event. *)
C11_SyncFailureRetries ==
    [][/\ (MinerStep /\ pc_m = "sync") => pc_m' \in {"header", "error_sleep"}
       /\ (MinerStep /\ pc_m = "header") => pc_m' \in {"hot", "error_sleep"}
       /\ (MinerStep /\ pc_m = "error_sleep") => pc_m' = "wait"
       /\ (pc_m' = "error_sleep") => restart_event']_vars

(* C12: for every digest and every difficulty d >= 1, meets_difficulty
   returns True exactly when the big-endian unsigned value of the digest is
   at most floor(MAX_TARGET / d), and never raises; difficulty 1 accepts
   every digest, and difficulty 2^(HashBits - 1) accepts exactly the digests
   of value 0 and 1. *)
C12_MeetsDifficultyExact ==
    (call.outcome \notin {"none", "pending"} /\ call.difficulty >= 1) =>
        /\ call.outcome \in {"true", "false"}
        /\ (call.outcome = "true") <=>
               (BigEndianValue(call.final_hash) <= MAX_TARGET \div call.difficulty)
        /\ (call.difficulty = 1) => (call.outcome = "true")
        /\ (call.difficulty = 2^(HashBits - 1)) =>
               ((call.outcome = "true") <=> (BigEndianValue(call.final_hash) \in {0, 1}))

\* the digest 0..01 was accepted at difficulty 2^(HashBits - 1); read from
\* the other end it is 2^(HashBits - 1), far above the target
C12_Witness ==
    /\ call.outcome = "true" /\ call.difficulty = 2^(HashBits - 1)
    /\ BigEndianValue(call.final_hash) = 1

(* C13: for every difficulty d < 1, zero and negative, and every digest,
   meets_difficulty does not return True or False: the call fails with an
   error, so no digest is accepted or rejected against a non-positive
   difficulty. *)
C13_NonPositiveDifficultyFails ==
    (call.outcome \notin {"none", "pending"} /\ call.difficulty < 1) =>
        call.outcome = "raise"

(* C14: the cached parameters are refreshed as a whole: block_number,
   difficulty and prev_hash always are the initial triple or the triple one
   successful sync_chain_state call returned; they and ts change only in the
   miner's step that stores a successful refresh, which also captures them
   as the template of the cycle; a refresh that fails, at whichever query,
   changes none of the four; no step of the listener changes them. *)
C14_WholesaleRefresh ==
    [][/\ <<block_number', difficulty', prev_hash'>> \in (ChainStates \cup {<<0, 1, 0>>})
       /\ (params' # params) =>
             /\ MinerStep /\ ~ListenerStep
             /\ pc_m = "sync" /\ pc_m' = "header"
       /\ (MinerStep /\ pc_m = "sync" /\ pc_m' = "header") =>
             /\ <<block_number', difficulty', prev_hash'>> \in ChainStates
             /\ tmpl' = [block_number |-> block_number', difficulty |-> difficulty',
                         prev_hash |-> prev_hash', current_ts |-> ts']
       /\ (MinerStep /\ pc_m = "sync" /\ pc_m' # "header") => (params' = params)
       /\ ListenerStep => (params' = params)]_vars

\* a refresh has failed after an earlier one had stored <<1, 2, 1>>
C14_Witness ==
    /\ pc_m = "error_sleep" /\ restart_event
    /\ <<block_number, difficulty, prev_hash>> = <<1, 2, 1>>

(* C15: submit_solution is called at most once between two successful
   refreshes, and only after one; the request it sends carries the nonce
   whose double hash over the header digest of the cycle met the difficulty
   of the cycle, and the timestamp stored by the refresh that started the
   cycle, the one hashed into that header digest; the digest, the difficulty
   and the timestamp are those of the parameters cached by that refresh. *)
C15_OneSubmissionPerCycle ==
    [][/\ cycle_submits' <= 1
       /\ (request' # request /\ request' # NoRequest) => (MinerStep /\ pc_m = "submit")
       /\ (MinerStep /\ pc_m = "submit") =>
             LET n == DecimalValue(request'.nonce)
                 t == DecimalValue(request'.ts)
             IN  /\ cycle_submits = 0 /\ cycle_submits' = 1
                 /\ request'.nonce # <<>> /\ request'.ts # <<>>
                 /\ n = nonce
                 /\ t = ts /\ t = tmpl.current_ts
                 /\ header_hash = generate_header_hash(block_number, address_bytes,
                                       difficulty, prev_hash, t)
                 /\ difficulty >= 1 /\ difficulty = tmpl.difficulty
                 /\ BigEndianValue(sha3_256d(header_hash, n)) <= MAX_TARGET \div difficulty
       /\ (cycle_submits' < cycle_submits) => (MinerStep /\ pc_m = "sync" /\ pc_m' = "header")]_vars

\* a solution found after at least one miss, at a difficulty that rejects
\* some digests, has been submitted with the later of the two clock values
C15_Witness ==
    /\ pc_m = "acquire_await" /\ cycle_submits = 1
    /\ tmpl.difficulty = 2 /\ local_hashes = 0
    /\ request = [nonce |-> <<nonce>>, ts |-> <<1>>]

(* C16: in the hash loop every miss moves the nonce on by one modulo
   2^NonceBits: the nonce packed for a hash attempt always fits the unsigned
   width, a miss at the largest value continues at 0, and the search never
   fails on the nonce. *)
C16_NonceWraps ==
    [][/\ nonce' \in 0..(2^NonceBits - 1)
       /\ (MinerStep /\ pc_m = "hot" /\ pc_m' = "hot") =>
             nonce' = (nonce + 1) % 2^NonceBits
       /\ (pc_m = "hot" /\ pc_m' = "Crashed") => tmpl.difficulty < 1]_vars

(* C17: the miner reads awaiting_confirmation (line 240) and writes it
   (line 306), and the listener writes it (line 369), only while the thread
   itself holds state.lock; the two threads are never inside their locked
   blocks at the same time, the lock being held by exactly the thread that
   is inside one; and a hash attempt of the inner loop neither takes nor
   holds the lock. *)
C17_FlagUnderLock ==
    [][/\ (MinerStep /\ pc_m = "check_awaiting") => lock = "miner"
       /\ (MinerStep /\ pc_m = "set_awaiting") => lock = "miner"
       /\ (ListenerStep /\ pc_l = "clear_awaiting") => lock = "listener"
       /\ (awaiting_confirmation' # awaiting_confirmation) =>
             \/ (MinerStep /\ pc_m = "set_awaiting" /\ lock = "miner")
             \/ (ListenerStep /\ pc_l = "clear_awaiting" /\ lock = "listener")
       /\ ~(MinerInLockedBlock' /\ ListenerInLockedBlock')
       /\ MinerInLockedBlock' <=> (lock' = "miner")
       /\ ListenerInLockedBlock' <=> (lock' = "listener")
       /\ (MinerStep /\ pc_m = "hot") => (lock # "miner" /\ lock' = lock)]_vars

\* the miner is setting the flag under the lock while the listener, with a
\* target event at hand, waits for the lock to clear it
C17_Witness ==
    /\ pc_m = "set_awaiting" /\ lock = "miner"
    /\ pc_l = "acquire" /\ TargetEnvelope(data)

(* C18: the miner never blocks in a restart_event.wait() (lines 235, 310) or
   sleeps in the back-off of line 272 while it holds state.lock, and every
   way out of a locked block (the continue of line 241, a stored refresh, a
   refresh that raises, the set of line 306, the listener's clear of line
   369) releases the lock; hence a listener that has let a target event
   through eventually takes the lock and clears awaiting_confirmation,
   unless the process is interrupted. *)
C18_LockAlwaysReleased ==
    /\ [][/\ (pc_m' \in {"wait", "wait_confirm", "error_sleep"}) => lock' # "miner"
          /\ (MinerStep /\ MinerInLockedBlock /\ ~MinerInLockedBlock') => lock' = "free"
          /\ (ListenerStep /\ ListenerInLockedBlock /\ ~ListenerInLockedBlock') =>
                lock' = "free"]_vars
    /\ (pc_l = "acquire") ~> (pc_l = "set_restart" \/ interrupted)

\* the miner backs off after a refresh that raised, the lock is free, and
\* the listener is about to take it for a target event
C18_Witness ==
    /\ pc_m = "error_sleep" /\ restart_event /\ lock = "free"
    /\ pc_l = "acquire" /\ TargetEnvelope(data)

(* C19: whenever the miner is at the top of its outer loop (the wait of line
   235) with awaiting_confirmation true, restart_event is clear, so the
   miner blocks there instead of going round through lines 235-241 again
   and again; with the two flags both true the miner is nowhere but in its
   steps after a submission. *)
C19_NoBusySpin ==
    (restart_event /\ awaiting_confirmation) => AfterSubmit

====
